---------------------------- MODULE Spec2Model ----------------------------
(***************************************************************************)
(* EdgePartition2D: the edge-to-partition assignment of GraphX and the     *)
(* change proposed for it, as given in EdgePartition2D.ipynb.              *)
(*                                                                         *)
(* Four functions are modelled from the notebook:                          *)
(*   old2d, new2d                  the numpy.int64 Python functions        *)
(*   getPartitionCurrent/Improved  the Scala getPartition methods          *)
(* together with the geometry of visualize and the counting loop of        *)
(* get_counts.                                                             *)
(*                                                                         *)
(* A vertex id is a 64-bit two's complement word, kept as its 8 bytes,     *)
(* least significant first, so that products and absolute values wrap      *)
(* exactly as Java's long and numpy.int64 do.  Partition counts, columns   *)
(* and rows are small and are kept as integers.                            *)
(***************************************************************************)
EXTENDS Integers, Sequences, FiniteSets, TLC

VARIABLES src, dst, numParts, out, x, seen, old_cnt, new_cnt

vars == <<src, dst, numParts, out, x, seen, old_cnt, new_cnt>>

(***************************************************************************)
(* Bounds of the model.                                                    *)
(***************************************************************************)
\* partition counts 1..MaxNumParts (the notebook's slider goes to 50)
MaxNumParts == 10
\* invalid partition counts -MaxInvalid..0
MaxInvalid == 1
\* vertex ids within MaxOff of 0, of INT64_MIN and of INT64_MAX
MaxOff == 2

(***************************************************************************)
(* 64-bit words.                                                           *)
(***************************************************************************)
\* numpy.int64 and Scala's Long (VertexId) are 8 bytes wide
WordBytes == 8

\* the bytes of a small integer k (|k| < 2^31) from byte i on, in two's
\* complement with sign extension: k \div 256 floors, so -1 stays -1
RECURSIVE W64From(_, _)
W64From(k, i) ==
    IF i > WordBytes THEN <<>> ELSE <<k % 256>> \o W64From(k \div 256, i + 1)

W64(k) == W64From(k, 1)

Int64Min == <<0, 0, 0, 0, 0, 0, 0, 128>>
Int64Max == <<255, 255, 255, 255, 255, 255, 255, 127>>

\* the sign bit: the word is negative as a signed 64-bit value
IsNeg(w) == w[WordBytes] >= 128

\* a + b from byte i on; the carry out of the top byte is dropped
\* (wrap-around modulo 2^64)
RECURSIVE AddFrom(_, _, _, _)
AddFrom(a, b, i, carry) ==
    IF i > WordBytes THEN <<>>
    ELSE <<(a[i] + b[i] + carry) % 256>>
         \o AddFrom(a, b, i + 1, (a[i] + b[i] + carry) \div 256)

Add64(a, b) == AddFrom(a, b, 1, 0)

\* two's complement negation: ~a + 1, wrapping (-INT64_MIN = INT64_MIN)
RECURSIVE NegFrom(_, _, _)
NegFrom(a, i, carry) ==
    IF i > WordBytes THEN <<>>
    ELSE <<(255 - a[i] + carry) % 256>>
         \o NegFrom(a, i + 1, (255 - a[i] + carry) \div 256)

Neg64(a) == NegFrom(a, 1, 1)

\* the sum of the byte products a[i] * b[j] with i + j = k + 1
RECURSIVE ColSum(_, _, _, _)
ColSum(a, b, k, i) ==
    IF i > k THEN 0 ELSE a[i] * b[k + 1 - i] + ColSum(a, b, k, i + 1)

\* the low 64 bits of the product (Java's long *, numpy.int64 * with the
\* overflow warning ignored)
RECURSIVE MulFrom(_, _, _, _)
MulFrom(a, b, k, carry) ==
    IF k > WordBytes THEN <<>>
    ELSE <<(ColSum(a, b, k, 1) + carry) % 256>>
         \o MulFrom(a, b, k + 1, (ColSum(a, b, k, 1) + carry) \div 256)

Mul64(a, b) == MulFrom(a, b, 1, 0)

\* the word read as an unsigned number, modulo n (n >= 1)
RECURSIVE UModFrom(_, _, _, _)
UModFrom(w, n, i, r) ==
    IF i = 0 THEN r ELSE UModFrom(w, n, i - 1, (r * 256 + w[i]) % n)

UMod(w, n) == UModFrom(w, n, WordBytes, 0)

\* |w| as an unsigned number modulo n: the magnitude of INT64_MIN is 2^63,
\* which is Neg64(INT64_MIN) read unsigned
MagMod(w, n) == IF IsNeg(w) THEN UMod(Neg64(w), n) ELSE UMod(w, n)

(***************************************************************************)
(* Integer operators of the two languages.                                 *)
(***************************************************************************)
\* a mutant of Abs64: the absolute value saturates at INT64_MAX
Abs64_saturating(w) ==
    IF w = Int64Min THEN Int64Max ELSE IF IsNeg(w) THEN Neg64(w) ELSE w

\* abs / math.abs on a 64-bit value: (w < 0) ? -w : w, so INT64_MIN stays
\* INT64_MIN
Abs64(w) == IF IsNeg(w) THEN Neg64(w) ELSE w

\* floor modulo of a small value, the remainder taking the sign of the
\* divisor n (n # 0)
FloorMod(a, n) == IF n > 0 THEN a % n ELSE 0 - ((0 - a) % (0 - n))

\* floor division of a small value (n # 0)
FloorDiv(a, n) == IF n > 0 THEN a \div n ELSE (0 - a) \div (0 - n)

\* the magnitude of n
Magnitude(n) == IF n < 0 THEN 0 - n ELSE n

\* numpy.int64 % n: the remainder has the sign of the divisor; with
\* np.seterr(all='ignore') a zero divisor silently yields 0
NpMod(w, n) ==
    IF n = 0 THEN 0
    ELSE IF IsNeg(w) THEN FloorMod(0 - MagMod(w, Magnitude(n)), n)
    ELSE FloorMod(MagMod(w, Magnitude(n)), n)

\* numpy.int64 % n on a small value
NpModInt(a, n) == IF n = 0 THEN 0 ELSE FloorMod(a, n)

\* numpy.int64 // n: floor division; a zero divisor silently yields 0
NpFloorDiv(a, n) == IF n = 0 THEN 0 ELSE FloorDiv(a, n)

\* Java's long % n (n # 0): the remainder has the sign of the dividend
JavaRem(w, n) ==
    IF IsNeg(w) THEN 0 - MagMod(w, Magnitude(n)) ELSE MagMod(w, Magnitude(n))

\* Java's int % n on a small value (n # 0)
JavaRemInt(a, n) ==
    IF a < 0 THEN 0 - ((0 - a) % Magnitude(n)) ELSE a % Magnitude(n)

\* Java's / on small values (n # 0): truncation toward zero
JavaDiv(a, n) ==
    IF (a < 0) = (n < 0) THEN Magnitude(a) \div Magnitude(n)
    ELSE 0 - (Magnitude(a) \div Magnitude(n))

\* a mutant of CeilSqrt: the root is rounded down
CeilSqrt_floor(n) ==
    CHOOSE k \in 0..n : k * k <= n /\ (k + 1) * (k + 1) > n

\* math.ceil(math.sqrt(n)) for n >= 0: the least k with k * k >= n
CeilSqrt(n) == CHOOSE k \in 0..n : k * k >= n /\ \A j \in 0..(k - 1) : j * j < n

\* math.ceil(math.sqrt(numParts)).toInt: sqrt of a negative is NaN, and
\* NaN.toInt is 0
ScalaCeilSqrt(n) == IF n < 0 THEN 0 ELSE CeilSqrt(n)

\* the literal 1125899906842597, digit by digit
mixingPrimeDigits == <<1, 1, 2, 5, 8, 9, 9, 9, 0, 6, 8, 4, 2, 5, 9, 7>>

\* the value of the first k digits ds, as a word: Horner's rule, each prefix
\* worked out before it is multiplied
RECURSIVE FromDigits(_, _)
FromDigits(ds, k) ==
    IF k = 0 THEN W64(0)
    ELSE LET prefix == FromDigits(ds, k - 1)
         IN  IF Len(prefix) = WordBytes
             THEN Add64(Mul64(prefix, W64(10)), W64(ds[k]))
             ELSE prefix

mixingPrime == FromDigits(mixingPrimeDigits, Len(mixingPrimeDigits))

\* a mutant of Mix: the absolute value is left out
Mix_noAbs(v) == Mul64(v, mixingPrime)

\* abs(v * mixingPrime), wrapping
Mix(v) == Abs64(Mul64(v, mixingPrime))

(***************************************************************************)
(* Outcomes of a call.                                                     *)
(***************************************************************************)
NotCalled == [kind |-> "none"]

\* a returned value, with the divisors and moduli the call used, the branch
\* it took and the two scrambled ids
Return(v, divs, br, hs, hd) ==
    [kind |-> "return", value |-> v, divisors |-> divs, branch |-> br,
     mixed |-> <<hs, hd>>]

\* a value returned by the new method, with the grid it was computed on and
\* the cell (col, row) it was computed from
ReturnGrid(v, divs, hs, hd, cols, rows, lastColRows, col, row) ==
    [kind |-> "return", value |-> v, divisors |-> divs, branch |-> "new",
     mixed |-> <<hs, hd>>,
     grid |-> [cols |-> cols, rows |-> rows, lastColRows |-> lastColRows],
     cell |-> [col |-> col, row |-> row]]

Raise(e) == [kind |-> "raise", exn |-> e]

(***************************************************************************)
(* Grid geometry.                                                          *)
(***************************************************************************)
\* a mutant of Rows: the division rounds down
Rows_floor(n, cols) == NpFloorDiv(n, cols)

\* rows = (numParts + cols - 1) // cols
Rows(n, cols) == NpFloorDiv(n + cols - 1, cols)

\* a mutant of LastColRows: every column is subtracted
LastColRows_allCols(n, cols, rows) == n - rows * cols

\* lastColRows = numParts - rows * (cols - 1)
LastColRows(n, cols, rows) == n - rows * (cols - 1)

\* a mutant of ColHeight: the last column is taken to be a full one
ColHeight_full(col, cols, rows, lastColRows) == rows

\* rows if (col < cols - 1) else lastColRows
ColHeight(col, cols, rows, lastColRows) ==
    IF col < cols - 1 THEN rows ELSE lastColRows

\* a mutant of GridIndex: partitions are numbered from 1
GridIndex_fromOne(col, rows, row) == col * rows + row + 1

\* a mutant of GridIndex: the row is scaled instead of the column
GridIndex_transposed(col, rows, row) == row * rows + col

\* col * rows + row
GridIndex(col, rows, row) == col * rows + row

(***************************************************************************)
(* The Python functions.  math.sqrt raises ValueError on a negative        *)
(* argument; the numpy.int64 operators never raise.                        *)
(***************************************************************************)
\* a mutant of old2dValue: the cell index is not folded modulo numParts
old2dValue_noFold(hs, hd, n, ceilSqrtNumParts) ==
    NpMod(hs, ceilSqrtNumParts) * ceilSqrtNumParts + NpMod(hd, ceilSqrtNumParts)

old2dValue(hs, hd, n, ceilSqrtNumParts) ==
    NpModInt(NpMod(hs, ceilSqrtNumParts) * ceilSqrtNumParts
             + NpMod(hd, ceilSqrtNumParts), n)

old2d(s, d, n) ==
    IF n < 0 THEN Raise("ValueError")
    ELSE LET ceilSqrtNumParts == CeilSqrt(n)
             hs == Mix(s)
             hd == Mix(d)
         IN  Return(old2dValue(hs, hd, n, ceilSqrtNumParts),
                    {ceilSqrtNumParts, n}, "old", hs, hd)

\* a mutant of new2dCol: % written for //
new2dCol_modRows(hs, n, rows) == NpMod(hs, n) % rows

\* col = int(abs(src * mixingPrime) % numParts // rows)
new2dCol(hs, n, rows) == NpFloorDiv(NpMod(hs, n), rows)

new2d(s, d, n) ==
    IF n < 0 THEN Raise("ValueError")
    ELSE LET cols == CeilSqrt(n)
             rows == Rows(n, cols)
             lastColRows == LastColRows(n, cols, rows)
             hs == Mix(s)
             hd == Mix(d)
             col == new2dCol(hs, n, rows)
             height == ColHeight(col, cols, rows, lastColRows)
             row == NpMod(hd, height)
         IN  ReturnGrid(GridIndex(col, rows, row),
                        {cols, n, rows, height}, hs, hd,
                        cols, rows, lastColRows, col, row)

\* the cell visualize draws partition i in: col = i // rows, row = i % rows
\* (Python ints, rows >= 1)
CellOf(i, rows) == [col |-> i \div rows, row |-> i % rows]

\* the geometry visualize draws; cols is a Python int there, so a zero
\* divisor raises
visualize(n) ==
    IF n < 0 THEN Raise("ValueError")
    ELSE IF CeilSqrt(n) = 0 THEN Raise("ZeroDivisionError")
    ELSE LET cols == CeilSqrt(n)
             rows == Rows(n, cols)
         IN  [kind |-> "return",
              grid |-> [cols |-> cols, rows |-> rows,
                        lastColRows |-> LastColRows(n, cols, rows)]]

(***************************************************************************)
(* The Scala methods.  An integer division or remainder by zero throws     *)
(* ArithmeticException.                                                    *)
(***************************************************************************)
\* the old method: col and row modulo ceilSqrtNumParts, folded modulo numParts
currentValue(hs, hd, n, ceilSqrtNumParts) ==
    IF ceilSqrtNumParts = 0 \/ n = 0 THEN Raise("ArithmeticException")
    ELSE Return(JavaRemInt(JavaRem(hs, ceilSqrtNumParts) * ceilSqrtNumParts
                           + JavaRem(hd, ceilSqrtNumParts), n),
                {ceilSqrtNumParts, n}, "old", hs, hd)

\* ###Current
getPartitionCurrent(s, d, n) ==
    currentValue(Mix(s), Mix(d), n, ScalaCeilSqrt(n))

\* a mutant of IsPerfectSquare: the test is inverted
IsPerfectSquare_inverted(n, ceilSqrtNumParts) ==
    n # ceilSqrtNumParts * ceilSqrtNumParts

\* numParts == ceilSqrtNumParts * ceilSqrtNumParts
IsPerfectSquare(n, ceilSqrtNumParts) == n = ceilSqrtNumParts * ceilSqrtNumParts

\* the new method of ###Improved
improvedValue(hs, hd, n, cols) ==
    IF cols = 0 THEN Raise("ArithmeticException")
    ELSE LET rows == JavaDiv(n + cols - 1, cols)
             lastColRows == LastColRows(n, cols, rows)
         IN  IF n = 0 \/ rows = 0 THEN Raise("ArithmeticException")
             ELSE LET col == JavaDiv(JavaRem(hs, n), rows)
                      height == ColHeight(col, cols, rows, lastColRows)
                  IN  IF height = 0 THEN Raise("ArithmeticException")
                      ELSE ReturnGrid(GridIndex(col, rows, JavaRem(hd, height)),
                                      {cols, n, rows, height}, hs, hd,
                                      cols, rows, lastColRows,
                                      col, JavaRem(hd, height))

\* ###Improved
getPartitionImproved(s, d, n) ==
    IF IsPerfectSquare(n, ScalaCeilSqrt(n))
    THEN currentValue(Mix(s), Mix(d), n, ScalaCeilSqrt(n))
    ELSE improvedValue(Mix(s), Mix(d), n, ScalaCeilSqrt(n))

(***************************************************************************)
(* Single calls: the arguments are drawn once, then each function is       *)
(* called on them, in any order.                                           *)
(***************************************************************************)
\* vertex ids around 0 and at both ends of the 64-bit range
Vids ==
    {W64(k) : k \in (0 - MaxOff)..MaxOff}
    \cup {Add64(Int64Min, W64(k)) : k \in 0..MaxOff}
    \cup {Add64(Int64Max, W64(0 - k)) : k \in 0..MaxOff}

NumPartsRange == (0 - MaxInvalid)..MaxNumParts

Fns == {"old2d", "new2d", "Current", "Improved", "visualize"}

Idle ==
    /\ x = 0
    /\ seen = {}
    /\ old_cnt = <<>>
    /\ new_cnt = <<>>

Init ==
    /\ src \in Vids
    /\ dst \in Vids
    /\ numParts \in NumPartsRange
    /\ out = [f \in Fns |-> NotCalled]
    /\ Idle

Call(f, r) ==
    /\ out[f].kind = "none"
    /\ out' = [out EXCEPT ![f] = r]
    /\ UNCHANGED <<src, dst, numParts, x, seen, old_cnt, new_cnt>>

CallOld2d == Call("old2d", old2d(src, dst, numParts))

CallNew2d == Call("new2d", new2d(src, dst, numParts))

CallCurrent == Call("Current", getPartitionCurrent(src, dst, numParts))

CallImproved == Call("Improved", getPartitionImproved(src, dst, numParts))

CallVisualize == Call("visualize", visualize(numParts))

Next ==
    \/ CallOld2d
    \/ CallNew2d
    \/ CallCurrent
    \/ CallImproved
    \/ CallVisualize

Spec == Init /\ [][Next]_vars

(***************************************************************************)
(* get_counts: the counting loop.  Sample x of the sweep replaces the       *)
(* random draw of rand_vid: the source ids run over 0..numParts-1 and the   *)
(* destination ids over 0..rows*lastColRows-1, each pair once.              *)
(***************************************************************************)
\* rows * lastColRows of the grid of n partitions
SweepDsts(n) ==
    Rows(n, CeilSqrt(n)) * LastColRows(n, CeilSqrt(n), Rows(n, CeilSqrt(n)))

\* sample_size: the loop runs x over 1..sample_size-1
SampleSize(n) == n * SweepDsts(n) + 1

SweepSrc(k, n) == W64((k - 1) % n)

SweepDst(k, n) == W64((k - 1) \div n)

\* collections.Counter: a missing key counts 0
CounterGet(c, k) == IF k \in DOMAIN c THEN c[k] ELSE 0

\* cnt[k] += 1
CounterInc(c, k) ==
    [j \in (DOMAIN c) \cup {k} |-> CounterGet(c, j) + (IF j = k THEN 1 ELSE 0)]

InitCounts ==
    /\ numParts \in 1..MaxNumParts
    /\ src = W64(0)
    /\ dst = W64(0)
    /\ out = [f \in Fns |-> NotCalled]
    /\ Idle

\* one turn of the loop of get_counts
GetCountsStep ==
    /\ x + 1 < SampleSize(numParts)
    /\ x' = x + 1
    /\ src' = SweepSrc(x + 1, numParts)
    /\ dst' = SweepDst(x + 1, numParts)
    /\ old_cnt' = CounterInc(old_cnt, old2d(src', dst', numParts).value)
    /\ new_cnt' = CounterInc(new_cnt, new2d(src', dst', numParts).value)
    /\ UNCHANGED <<numParts, out, seen>>

NextCounts == GetCountsStep

SpecCounts == InitCounts /\ [][NextCounts]_vars

(***************************************************************************)
(* The partitions of a vertex: src is the vertex, and edge after edge to    *)
(* and from the other vertices is assigned, the partitions met being kept   *)
(* in seen.                                                                 *)
(***************************************************************************)
\* the other ends of the edges: ids whose scrambled values run over every
\* residue modulo numParts and modulo every column height, and INT64_MIN
Others(n) == [k \in 1..(n + 1) |-> IF k <= n THEN W64(k - 1) ELSE Int64Min]

ReplVids == Vids \cup {W64(k) : k \in 0..(MaxNumParts - 1)}

InitRepl ==
    /\ numParts \in 1..MaxNumParts
    /\ src \in ReplVids
    /\ dst = W64(0)
    /\ out = [f \in Fns |-> NotCalled]
    /\ Idle

\* the partitions of the edges src -> u and u -> src under both functions
EdgePartitions(v, u, n) ==
    {<<"new2d", new2d(v, u, n).value>>, <<"new2d", new2d(u, v, n).value>>,
     <<"Improved", getPartitionImproved(v, u, n).value>>,
     <<"Improved", getPartitionImproved(u, v, n).value>>}

AssignEdges ==
    /\ x < numParts + 1
    /\ x' = x + 1
    /\ dst' = Others(numParts)[x + 1]
    /\ seen' = seen \cup EdgePartitions(src, dst', numParts)
    /\ UNCHANGED <<src, numParts, out, old_cnt, new_cnt>>

NextRepl == AssignEdges

SpecRepl == InitRepl /\ [][NextRepl]_vars

(***************************************************************************)
(* get_counts over the cells of the old grid: the source ids run over      *)
(* ceilSqrtNumParts consecutive ids from a base, the destination ids over  *)
(* 0..ceilSqrtNumParts-1, each pair once.                                  *)
(***************************************************************************)
\* the samples of the sweep: one for each cell of the old grid
CellSamples(n) == CeilSqrt(n) * CeilSqrt(n)

\* the source id of the sample after x samples: the next id, or back to the
\* base after ceilSqrtNumParts of them
NextCellSrc(s, k, n) ==
    IF k = 0 THEN s
    ELSE IF k % CeilSqrt(n) = 0 THEN Add64(s, W64(1 - CeilSqrt(n)))
    ELSE Add64(s, W64(1))

NextCellDst(k, n) == W64(k \div CeilSqrt(n))

InitCells ==
    /\ numParts \in 1..MaxNumParts
    /\ src \in {W64(b) : b \in 0..MaxOff}
    /\ dst = W64(0)
    /\ out = [f \in Fns |-> NotCalled]
    /\ Idle

\* one turn of the loop of get_counts
CountCell ==
    /\ x < CellSamples(numParts)
    /\ x' = x + 1
    /\ src' = NextCellSrc(src, x, numParts)
    /\ dst' = NextCellDst(x, numParts)
    /\ old_cnt' = CounterInc(old_cnt, old2d(src', dst', numParts).value)
    /\ new_cnt' = CounterInc(new_cnt, new2d(src', dst', numParts).value)
    /\ UNCHANGED <<numParts, out, seen>>

NextCells == CountCell

SpecCells == InitCells /\ [][NextCells]_vars

(***************************************************************************)
(* get_counts over every pair of the ids 0..numParts-1.                    *)
(***************************************************************************)
\* the samples of the sweep
PairSamples(n) == n * n

\* one turn of the loop of get_counts
CountPair ==
    /\ x < PairSamples(numParts)
    /\ x' = x + 1
    /\ src' = SweepSrc(x + 1, numParts)
    /\ dst' = SweepDst(x + 1, numParts)
    /\ old_cnt' = CounterInc(old_cnt, old2d(src', dst', numParts).value)
    /\ new_cnt' = CounterInc(new_cnt, new2d(src', dst', numParts).value)
    /\ UNCHANGED <<numParts, out, seen>>

NextPairs == CountPair

SpecPairs == InitCounts /\ [][NextPairs]_vars

(***************************************************************************)
(* Single calls of the Python functions on ids spread over the 64-bit      *)
(* range.                                                                  *)
(***************************************************************************)
\* the word with bit j set alone, from byte i on
RECURSIVE BitFrom(_, _)
BitFrom(j, i) ==
    IF i > WordBytes THEN <<>>
    ELSE <<IF i = (j \div 8) + 1 THEN 2 ^ (j % 8) ELSE 0>> \o BitFrom(j, i + 1)

\* 2^j as a word; 2^63 wraps to INT64_MIN
Bit64(j) == BitFrom(j, 1)

\* ids of every magnitude and both signs, and multiples of the mixing prime
MixVids ==
    Vids
    \cup {Bit64(j) : j \in 0..(8 * WordBytes - 1)}
    \cup {Neg64(Bit64(j)) : j \in 0..(8 * WordBytes - 1)}
    \cup {Mul64(W64(k), mixingPrime) : k \in 1..MaxOff}

InitMix ==
    /\ src \in MixVids
    /\ dst \in Vids
    /\ numParts \in 1..MaxNumParts
    /\ out = [f \in Fns |-> NotCalled]
    /\ Idle

NextMix ==
    \/ CallOld2d
    \/ CallNew2d

SpecMix == InitMix /\ [][NextMix]_vars

(***************************************************************************)
(* Properties of single calls.                                             *)
(***************************************************************************)
Returned(f) == out[f].kind = "return"

InRange(f) == Returned(f) /\ out[f].value \in 0..(numParts - 1)

\* numParts is k * k for some k >= 1
SquareNumParts == \E k \in 1..MaxNumParts : numParts = k * k

\* the grid of a call that returned one is well formed for numParts
GridOK(g) ==
    /\ (g.cols - 1) * (g.cols - 1) < numParts
    /\ numParts <= g.cols * g.cols
    /\ g.rows * g.cols >= numParts
    /\ (g.rows - 1) * g.cols < numParts
    /\ g.lastColRows = numParts - g.rows * (g.cols - 1)
    /\ 1 <= g.lastColRows
    /\ g.lastColRows <= g.rows
    /\ (g.cols - 1) * g.rows + g.lastColRows = numParts

\* C1 (as claimed): for numParts >= 1 every call of old2d, new2d and the
\* Improved getPartition returns a partition index p with 0 <= p < numParts,
\* whatever the 64-bit src and dst, INT64_MIN included.
C1_RangeInvariant ==
    numParts >= 1 =>
        \A f \in {"old2d", "new2d", "Improved"} :
            out[f].kind # "none" => InRange(f)

\* The part of C1 that the numpy functions satisfy: old2d and new2d stay in
\* range, their % taking the sign of the divisor.
RangeOfPython ==
    numParts >= 1 =>
        \A f \in {"old2d", "new2d"} : out[f].kind # "none" => InRange(f)

\* C2 (as claimed): for a perfect square numParts both new2d and the
\* Improved getPartition return what the original algorithm returns.
C2_SquareEquivalence ==
    SquareNumParts =>
        /\ (Returned("new2d") /\ Returned("old2d")) =>
               out["new2d"].value = out["old2d"].value
        /\ (Returned("Improved") /\ Returned("Current")) =>
               out["Improved"].value = out["Current"].value

\* C2 (amended): for a perfect square numParts >= 1 the Improved getPartition
\* takes its perfect-square branch and returns exactly what the Current
\* getPartition returns; nothing is claimed of new2d, which has no such
\* branch.
C2_ImprovedKeepsCurrent ==
    (SquareNumParts /\ out["Improved"].kind # "none") =>
        /\ Returned("Improved")
        /\ out["Improved"].branch = "old"
        /\ out["Current"].kind # "none" => out["Improved"] = out["Current"]

\* the case of C2: a perfect square above 1 on which the new method, taken
\* alone, gives another partition than the one the two getPartition return
C2_Witness ==
    /\ SquareNumParts
    /\ numParts > 1
    /\ Returned("Improved")
    /\ Returned("Current")
    /\ Returned("new2d")
    /\ out["Improved"].value = out["Current"].value
    /\ out["new2d"].value # out["Current"].value

\* C5: for numParts >= 1 the grid has cols = ceil(sqrt(numParts)) and
\* rows = ceil(numParts / cols), and its last column holds lastColRows
\* partitions with 1 <= lastColRows <= rows and
\* (cols - 1) * rows + lastColRows = numParts.
C5_GridGeometry ==
    numParts >= 1 =>
        /\ \A f \in {"new2d", "visualize"} :
               Returned(f) => GridOK(out[f].grid)
        /\ (Returned("Improved") /\ out["Improved"].branch = "new") =>
               GridOK(out["Improved"].grid)

\* the case of C5: a grid whose last column is shorter than the others
C5_Witness ==
    /\ numParts >= 1
    /\ Returned("new2d")
    /\ Returned("visualize")
    /\ out["visualize"].grid = out["new2d"].grid
    /\ out["new2d"].grid.lastColRows < out["new2d"].grid.rows
    /\ out["new2d"].grid.cols > out["new2d"].grid.rows

\* C6 (as claimed): a call with numParts <= 0 ends in an error; it returns
\* no partition index and reduces by no zero divisor.
C6_InvalidRejected ==
    numParts <= 0 =>
        \A f \in {"old2d", "new2d", "Current", "Improved"} :
            out[f].kind # "none" => out[f].kind = "raise"

\* C7: for numParts >= 1 no call raises, and every divisor and modulus a
\* call uses is at least 1.
C7_Totality ==
    numParts >= 1 =>
        \A f \in {"old2d", "new2d", "Current", "Improved"} :
            out[f].kind # "none" =>
                /\ Returned(f)
                /\ \A q \in out[f].divisors : q >= 1

\* the case of C7: the new method reducing a row modulo the height of a
\* short last column, for an id whose scrambled value wrapped to INT64_MIN
C7_Witness ==
    /\ numParts >= 1
    /\ Returned("new2d")
    /\ Returned("Improved")
    /\ out["new2d"].grid.lastColRows < out["new2d"].grid.rows
    /\ out["new2d"].grid.lastColRows \in out["new2d"].divisors
    /\ out["new2d"].value >= out["new2d"].grid.rows * (out["new2d"].grid.cols - 1)
    /\ out["new2d"].mixed[2] = Int64Min

\* C8: the absolute value of INT64_MIN wraps to INT64_MIN, and with
\* src = dst = INT64_MIN and numParts = 4 the call returns, a value in [0, 4).
C8_Int64MinCorner ==
    (src = Int64Min /\ dst = Int64Min /\ numParts = 4) =>
        \A f \in {"old2d", "Current", "Improved"} :
            out[f].kind # "none" =>
                /\ Returned(f)
                /\ out[f].mixed = <<Int64Min, Int64Min>>
                /\ out[f].value \in 0..3

\* the case of C8: the three functions called on (INT64_MIN, INT64_MIN, 4)
C8_Witness ==
    /\ src = Int64Min
    /\ dst = Int64Min
    /\ numParts = 4
    /\ \A f \in {"old2d", "Current", "Improved"} :
           Returned(f) /\ IsNeg(out[f].mixed[1]) /\ IsNeg(out[f].mixed[2])

\* C9: with numParts = 1 every call returns 0.
C9_SinglePartition ==
    numParts = 1 =>
        \A f \in {"old2d", "new2d", "Current", "Improved"} :
            out[f].kind # "none" => (Returned(f) /\ out[f].value = 0)

\* the case of C9: all four called with numParts = 1, on ids at both ends of
\* the range
C9_Witness ==
    /\ numParts = 1
    /\ src = Int64Min
    /\ dst = Int64Max
    /\ \A f \in {"old2d", "new2d", "Current", "Improved"} : Returned(f)

\* the row of a returned cell lies inside the column of the cell
CellInside(r) ==
    /\ 0 <= r.cell.col
    /\ r.cell.col <= r.grid.cols - 1
    /\ 0 <= r.cell.row
    /\ r.cell.col < r.grid.cols - 1 => r.cell.row < r.grid.rows
    /\ r.cell.col = r.grid.cols - 1 =>
           /\ r.cell.row < r.grid.lastColRows
           /\ r.value >= r.grid.rows * (r.grid.cols - 1)
           /\ r.value < numParts

\* C12 (as claimed): in the general case, for numParts >= 1 and every src
\* and dst, 0 <= col <= cols - 1 and the row lies below the height of its
\* column (rows, or lastColRows in the last column), under new2d and under
\* the general branch of the Improved getPartition.
C12_RowInsideColumn ==
    numParts >= 1 =>
        /\ Returned("new2d") => CellInside(out["new2d"])
        /\ (Returned("Improved") /\ out["Improved"].branch = "new") =>
               CellInside(out["Improved"])

\* The part of C12 that holds: the cells of new2d.
RowInsideColumnOfNew2d ==
    numParts >= 1 => (Returned("new2d") => CellInside(out["new2d"]))

\* C13 (as claimed): for numParts >= 1 old2d returns what the Current
\* getPartition returns, and new2d what the general branch of the Improved
\* getPartition returns, also when a product with the mixing constant is
\* INT64_MIN.
C13_PythonMatchesJava ==
    numParts >= 1 =>
        /\ (Returned("old2d") /\ Returned("Current")) =>
               out["old2d"].value = out["Current"].value
        /\ (Returned("new2d") /\ Returned("Improved")
            /\ out["Improved"].branch = "new") =>
               out["new2d"].value = out["Improved"].value

\* The part of C13 that holds: agreement whenever neither scrambled id is
\* INT64_MIN.
PythonMatchesJavaOffInt64Min ==
    (numParts >= 1 /\ src # Int64Min /\ dst # Int64Min) =>
        /\ (Returned("old2d") /\ Returned("Current")) =>
               out["old2d"] = out["Current"]
        /\ (Returned("new2d") /\ Returned("Improved")
            /\ out["Improved"].branch = "new") =>
               out["new2d"] = out["Improved"]

\* C16: for numParts >= 1 a result p = col * rows + row of new2d decodes, as
\* visualize decodes it, to its own cell: p div rows = col and
\* p mod rows = row.
C16_CellRoundTrip ==
    (numParts >= 1 /\ Returned("new2d")) =>
        CellOf(out["new2d"].value, out["new2d"].grid.rows) = out["new2d"].cell

\* the case of C16: a result in a short last column, off the first row,
\* decoded by the grid visualize computed
C16_Witness ==
    /\ numParts >= 1
    /\ Returned("new2d")
    /\ Returned("visualize")
    /\ out["new2d"].cell.col = out["visualize"].grid.cols - 1
    /\ out["new2d"].cell.row > 0
    /\ out["visualize"].grid.lastColRows < out["visualize"].grid.rows
    /\ CellOf(out["new2d"].value, out["visualize"].grid.rows) = out["new2d"].cell

(***************************************************************************)
(* Properties of the partitions of a vertex (SpecRepl).                    *)
(***************************************************************************)
\* the partitions met so far under function f
PartitionsOf(f) == {e[2] : e \in {e \in seen : e[1] = f}}

ReplicationBound(f) ==
    Cardinality(PartitionsOf(f)) * Cardinality(PartitionsOf(f)) <= 4 * numParts

\* C3 (as claimed): the partitions holding the edges of one vertex number at
\* most 2 * sqrt(numParts), under the new method and under the Improved
\* getPartition.
C3_ReplicationBound == ReplicationBound("new2d") /\ ReplicationBound("Improved")

\* The part of C3 that holds: the bound under new2d.
ReplicationOfNew2d == ReplicationBound("new2d")

\* all edges assigned, and the vertex met in every column
ReplicationSwept ==
    /\ x = numParts + 1
    /\ numParts >= 5
    /\ Cardinality(PartitionsOf("new2d")) > CeilSqrt(numParts)

(***************************************************************************)
(* Properties of the counting loop (SpecCounts).                           *)
(***************************************************************************)
\* the residues of the scrambled ids of the whole sweep
SweepResidues(n) ==
    {<<NpMod(Mix(SweepSrc(k, n)), n), NpMod(Mix(SweepDst(k, n)), SweepDsts(n))>> :
        k \in 1..(SampleSize(n) - 1)}

\* the loop of get_counts has run to its end
CountsDone == x + 1 = SampleSize(numParts)

\* C4: when the scrambled source ids run over one full set of residues
\* modulo numParts and the scrambled destination ids over one full set of
\* residues modulo rows * lastColRows, the new method gives every partition
\* in [0, numParts) the same number of (source, destination) pairs.
C4_EvenBins ==
    CountsDone =>
        /\ SweepResidues(numParts)
               = (0..(numParts - 1)) \X (0..(SweepDsts(numParts) - 1))
        /\ \A p \in 0..(numParts - 1) :
               CounterGet(new_cnt, p) = SweepDsts(numParts)
        /\ DOMAIN new_cnt = 0..(numParts - 1)

\* the case of C4: a full sweep on a grid whose last column is short, which
\* the old method leaves unbalanced
C4_Witness ==
    /\ CountsDone
    /\ LastColRows(numParts, CeilSqrt(numParts), Rows(numParts, CeilSqrt(numParts)))
           < Rows(numParts, CeilSqrt(numParts))
    /\ \A p \in 0..(numParts - 1) : CounterGet(new_cnt, p) >= 2
    /\ \E p, q \in DOMAIN old_cnt : old_cnt[p] # old_cnt[q]

(***************************************************************************)
(* Properties of the columns of the new grid (SpecCounts).                 *)
(***************************************************************************)
\* the columns of the grid of numParts partitions
Columns == 0..(CeilSqrt(numParts) - 1)

\* the residues modulo numParts of the scrambled source ids drawn so far
\* that new2d put in column c
ColumnResidues(c) ==
    {NpMod(Mix(SweepSrc(k, numParts)), numParts) :
        k \in {j \in 1..x :
                  new2d(SweepSrc(j, numParts), SweepDst(j, numParts),
                        numParts).cell.col = c}}

\* the partitions counted so far that lie in column c
ColumnPartitions(c) ==
    {p \in DOMAIN new_cnt : CellOf(p, Rows(numParts, CeilSqrt(numParts))).col = c}

\* the size the grid gives column c
ColumnSize(c) ==
    IF c < CeilSqrt(numParts) - 1 THEN Rows(numParts, CeilSqrt(numParts))
    ELSE numParts - Rows(numParts, CeilSqrt(numParts)) * (CeilSqrt(numParts) - 1)

\* C11 (as claimed): col = (r mod numParts) div rows puts the residues r in
\* [0, numParts) in the cols columns so that the sizes of any two columns
\* differ by at most 1.
C11_ColumnsWithinOne ==
    CountsDone =>
        \A c1, c2 \in Columns :
            Cardinality(ColumnResidues(c1)) - Cardinality(ColumnResidues(c2)) <= 1

\* C11 (amended): every column but the last receives exactly rows residues,
\* and holds rows partitions; the last column receives
\* lastColRows = numParts - rows * (cols - 1) of them, at least 1 and at most
\* rows.  Two columns differ by up to rows - 1.
C11_ColumnSizes ==
    CountsDone =>
        /\ UNION {ColumnResidues(c) : c \in Columns} = 0..(numParts - 1)
        /\ \A c \in Columns :
               /\ Cardinality(ColumnResidues(c)) = ColumnSize(c)
               /\ Cardinality(ColumnPartitions(c)) = ColumnSize(c)
               /\ 1 <= ColumnSize(c)
               /\ ColumnSize(c) <= Rows(numParts, CeilSqrt(numParts))

\* the case of C11: a full sweep on a grid whose last column is two or more
\* shorter than the first
C11_Witness ==
    /\ CountsDone
    /\ CeilSqrt(numParts) >= 2
    /\ Cardinality(ColumnResidues(0))
           >= Cardinality(ColumnResidues(CeilSqrt(numParts) - 1)) + 2
    /\ Cardinality(ColumnPartitions(0))
           >= Cardinality(ColumnPartitions(CeilSqrt(numParts) - 1)) + 2

(***************************************************************************)
(* Properties of the old grid (SpecCells).                                 *)
(***************************************************************************)
\* every cell of the old grid has been drawn
CellsDone == x = CellSamples(numParts)

\* the source id of sample k of the cell sweep that ends on source id s
CellSrc(s, k, n) ==
    Add64(s, W64(((k - 1) % CeilSqrt(n)) - (CeilSqrt(n) - 1)))

\* the cells (col, row) of the old grid that the whole sweep drew, with the
\* number of the sample
CellsDrawn(s, n) ==
    {<<NpMod(Mix(CellSrc(s, k, n)), CeilSqrt(n)),
       NpMod(Mix(NextCellDst(k - 1, n)), CeilSqrt(n))>> : k \in 1..CellSamples(n)}

\* C14: when every cell (col, row) of the ceilSqrt x ceilSqrt grid is drawn
\* once, old2d gives two cells to exactly the partitions in
\* [0, ceilSqrt * ceilSqrt - numParts) and one cell to every other partition
\* of [0, numParts); for a perfect square every partition receives one cell.
C14_OldGridFold ==
    CellsDone =>
        /\ CellsDrawn(src, numParts)
               = (0..(CeilSqrt(numParts) - 1)) \X (0..(CeilSqrt(numParts) - 1))
        /\ DOMAIN old_cnt = 0..(numParts - 1)
        /\ \A p \in 0..(numParts - 1) :
               CounterGet(old_cnt, p)
                   = IF p < CellSamples(numParts) - numParts THEN 2 ELSE 1
        /\ SquareNumParts => \A p \in DOMAIN old_cnt : old_cnt[p] = 1

\* the case of C14: the cells all drawn for a numParts that is no perfect
\* square, some partitions holding two cells and some one
C14_Witness ==
    /\ CellsDone
    /\ ~SquareNumParts
    /\ src # W64(CeilSqrt(numParts) - 1)
    /\ \E p, q \in DOMAIN old_cnt :
           /\ p < q
           /\ old_cnt[p] = 2
           /\ old_cnt[q] = 1

(***************************************************************************)
(* Properties of the sweep of all pairs (SpecPairs).                       *)
(***************************************************************************)
\* every pair of ids has been drawn
PairsDone == x = PairSamples(numParts)

\* C15: for numParts >= 1 every partition index in [0, numParts) is the
\* result of new2d for some src and dst, and of old2d for some src and dst.
C15_NoEmptyPartition ==
    PairsDone =>
        /\ DOMAIN new_cnt = 0..(numParts - 1)
        /\ DOMAIN old_cnt = 0..(numParts - 1)

\* the case of C15: all pairs drawn for a numParts that is no perfect
\* square, the last partition being met by both functions
C15_Witness ==
    /\ PairsDone
    /\ ~SquareNumParts
    /\ numParts >= 7
    /\ CounterGet(new_cnt, numParts - 1) >= 1
    /\ CounterGet(old_cnt, numParts - 1) >= 1
    /\ CounterGet(new_cnt, 0) >= 1

(***************************************************************************)
(* Properties of the scrambled ids (SpecMix).                              *)
(***************************************************************************)
\* C17: the scrambled value abs(v * mixingPrime) is negative for v = INT64_MIN
\* alone, for which it is INT64_MIN; for every other v it lies in
\* [0, INT64_MAX].
C17_ScrambledSign ==
    \A f \in {"old2d", "new2d"} :
        Returned(f) =>
            /\ IsNeg(out[f].mixed[1]) <=> src = Int64Min
            /\ IsNeg(out[f].mixed[2]) <=> dst = Int64Min
            /\ src = Int64Min => out[f].mixed[1] = Int64Min
            /\ dst = Int64Min => out[f].mixed[2] = Int64Min

\* the case of C17: a call on INT64_MIN and on an id whose product with the
\* mixing prime is negative and not INT64_MIN
C17_Witness ==
    /\ src = Int64Min
    /\ dst = W64(0 - 1)
    /\ Returned("old2d")
    /\ Returned("new2d")
    /\ out["old2d"].mixed[1] = Int64Min
    /\ ~IsNeg(out["new2d"].mixed[2])
    /\ IsNeg(Mul64(dst, mixingPrime))

=============================================================================
